---------------------------- MODULE Spec2Model ----------------------------
(***************************************************************************)
(* A model of gulp-html-partial (src/gulp-html-partial.js).                *)
(*                                                                         *)
(* A text is a sequence of symbols.  A symbol is one character, written as *)
(* a one-character string; the words "partial", "inc" and "src" are        *)
(* written as one symbol each and stand for their letters, which never     *)
(* occur apart in the texts considered (every regular expression of the    *)
(* source treats a run of letters like a single letter).                   *)
(***************************************************************************)
EXTENDS Integers, Sequences, FiniteSets, TLC

----------------------------------------------------------------------------
(* Characters and character classes of the regular expressions.            *)

NL == "\n"
CR == "\r"
SP == " "
DQ == "\""
SQ == "'"
\* the backquote character, which a TLA+ string cannot hold
BQ == "bq"

\* \s of a JavaScript regular expression (the white space the texts use)
IsSpace(c) == c \in {SP, NL, CR, "\t"}

\* . of a JavaScript regular expression without the s flag
IsDot(c) == c \notin {NL, CR}

IsQuote(c) == c \in {DQ, SQ}

Min(S) == CHOOSE x \in S : \A y \in S : x <= y
Max(S) == CHOOSE x \in S : \A y \in S : x >= y

\* the least (greatest) index of a set of indices, or 0 when there is none
FirstOf(S) == IF S = {} THEN 0 ELSE Min(S)
LastOf(S) == IF S = {} THEN 0 ELSE Max(S)

\* the part of s from index i to its end
From(s, i) == SubSeq(s, i, Len(s))

\* pat occurs in s at index i
StartsAt(s, i, pat) ==
    /\ i >= 1
    /\ i + Len(pat) - 1 <= Len(s)
    /\ \A k \in 1..Len(pat) : s[i + k - 1] = pat[k]

\* the least index >= from at which pat occurs in s, or 0
IndexOf(s, pat, from) ==
    FirstOf({i \in from..(Len(s) - Len(pat) + 1) : StartsAt(s, i, pat)})

\* the last index of the longest run of non-space characters of t from
\* index i on (i - 1 when there is none)
NonSpaceEnd(t, i) ==
    Min({j \in i..Len(t) : IsSpace(t[j])} \cup {Len(t) + 1}) - 1

\* the last index of the longest run of space characters from i
SpaceEnd(t, i) ==
    Min({j \in i..Len(t) : ~IsSpace(t[j])} \cup {Len(t) + 1}) - 1

\* the last index of the line that begins at index i (i - 1: an empty line)
LineEnd(s, i) ==
    Min({j \in i..Len(s) : ~IsDot(s[j])} \cup {Len(s) + 1}) - 1

Contains(s, pat) == IndexOf(s, pat, 1) # 0

----------------------------------------------------------------------------
(* String.prototype.replace: the replacement text's $ patterns.            *)

\* GetSubstitution of ECMAScript for a pattern without capture groups:
\* $$ is a dollar, $& the matched text, $` the text before the match,
\* $' the text after it; any other $ stands for itself.  Substitute expands
\* rep from index `from`, SubstituteAt the pattern found at index i
RECURSIVE Substitute(_, _, _, _, _)

SubstituteAt(rep, from, i, matched, before, after) ==
    IF i = 0 THEN From(rep, from)
    ELSE SubSeq(rep, from, i - 1)
         \o (CASE rep[i + 1] = "$" -> <<"$">>
                [] rep[i + 1] = "&" -> matched
                [] rep[i + 1] = BQ -> before
                [] rep[i + 1] = SQ -> after)
         \o Substitute(rep, i + 2, matched, before, after)

Substitute(rep, from, matched, before, after) ==
    SubstituteAt(rep, from,
                 FirstOf({i \in from..(Len(rep) - 1) :
                             rep[i] = "$" /\ rep[i + 1] \in {"$", "&", BQ, SQ}}),
                 matched, before, after)

GetSubstitution(rep, matched, before, after) ==
    Substitute(rep, 1, matched, before, after)

\* the match of pat at index i of s replaced by rep
ReplaceAt(s, pat, rep, i) ==
    SubSeq(s, 1, i - 1)
    \o GetSubstitution(rep, pat, SubSeq(s, 1, i - 1), From(s, i + Len(pat)))
    \o From(s, i + Len(pat))

\* s.replace(pat, rep) for a string pattern: the first occurrence only
ReplaceFirst(s, pat, rep) ==
    IF Contains(s, pat) THEN ReplaceAt(s, pat, rep, IndexOf(s, pat, 1)) ELSE s

\* s.replace(new RegExp(literal pat, 'g'), rep): every occurrence, left to
\* right, each replacement computed against the original text s.
\* ReplaceAllFrom gives the result from index `from` on, ReplaceAllAt with
\* the next occurrence at index i
RECURSIVE ReplaceAllFrom(_, _, _, _)

ReplaceAllAt(s, pat, rep, from, i) ==
    IF i = 0 THEN From(s, from)
    ELSE SubSeq(s, from, i - 1)
         \o GetSubstitution(rep, pat, SubSeq(s, 1, i - 1), From(s, i + Len(pat)))
         \o ReplaceAllFrom(s, pat, rep, i + Len(pat))

ReplaceAllFrom(s, pat, rep, from) ==
    ReplaceAllAt(s, pat, rep, from, IF pat = << >> THEN 0 ELSE IndexOf(s, pat, from))

ReplaceAll(s, pat, rep) == ReplaceAllFrom(s, pat, rep, 1)

\* content.replace(/\r?\n|\r/g, ' '): from index `from` on, the next line
\* break at index i
RECURSIVE LineBreaksFrom(_, _)

LineBreakAt(s, from, i) ==
    IF i = 0 THEN From(s, from)
    ELSE SubSeq(s, from, i - 1) \o <<SP>>
         \o LineBreaksFrom(s, IF s[i] = CR /\ i + 1 <= Len(s) /\ s[i + 1] = NL
                              THEN i + 2 ELSE i + 1)

LineBreaksFrom(s, from) ==
    LineBreakAt(s, from, FirstOf({i \in from..Len(s) : s[i] \in {NL, CR}}))

ReplaceLineBreaks(s) == LineBreaksFrom(s, 1)

----------------------------------------------------------------------------
(* getTags: the two regular expressions over the text.                     *)

\* `<${tagName}(.*)${close}` at index i: the index of the match's last
\* character, or 0.  (.*) is greedy and takes the last close of the line,
\* (.*?) is lazy and takes the first
CloseAt(s, p, close, greedy) ==
    IF greedy
    THEN LastOf({j \in p..(LineEnd(s, p) - Len(close) + 1) : StartsAt(s, j, close)})
    ELSE FirstOf({j \in p..(LineEnd(s, p) - Len(close) + 1) : StartsAt(s, j, close)})

TagEndAt(s, i, tagName, close, greedy) ==
    IF StartsAt(s, i, <<"<">> \o tagName)
       /\ CloseAt(s, i + 1 + Len(tagName), close, greedy) # 0
    THEN CloseAt(s, i + 1 + Len(tagName), close, greedy) + Len(close) - 1
    ELSE 0

\* html.match(regexp with the g flag): the places <<first, last>> of the
\* matches left to right, each search starting where the last match ended
RECURSIVE MatchTags(_, _, _, _, _)

MatchAt(s, i, tagName, close, greedy) ==
    IF i = 0 THEN << >>
    ELSE <<(<<i, TagEndAt(s, i, tagName, close, greedy)>>)>>
         \o MatchTags(s, TagEndAt(s, i, tagName, close, greedy) + 1,
                      tagName, close, greedy)

MatchTags(s, from, tagName, close, greedy) ==
    MatchAt(s, FirstOf({i \in from..Len(s) :
                           TagEndAt(s, i, tagName, close, greedy) # 0}),
            tagName, close, greedy)

\* the places of the tags getTags returns: closed, then selfClosed
TagPlaces(html, opts) ==
    MatchTags(html, 1, opts.tagName, <<"/">> \o opts.tagName \o <<">">>, TRUE)
    \o MatchTags(html, 1, opts.tagName, <<"/", ">">>, FALSE)

TextsAt(html, places) ==
    [k \in 1..Len(places) |-> SubSeq(html, places[k][1], places[k][2])]

getTags(html, opts) == TextsAt(html, TagPlaces(html, opts))

----------------------------------------------------------------------------
(* getAttributes: the regular expression                                   *)
(*   /(\S+)=["']?((?:.(?!["']?\s+(?:\S+)=|[>"']))+.)["']?/g                *)

\* \s+(?:\S+)= matches at index p
NextKeyAt(t, p) ==
    /\ p <= Len(t)
    /\ IsSpace(t[p])
    /\ \E e \in (SpaceEnd(t, p) + 2)..NonSpaceEnd(t, SpaceEnd(t, p) + 1) : t[e] = "="

\* ["']?\s+(?:\S+)=|[>"'] matches at index p: the negative lookahead of the
\* character before p fails
Stops(t, p) ==
    /\ p <= Len(t)
    /\ \/ t[p] \in {">", DQ, SQ}
       \/ NextKeyAt(t, p)
       \/ IsQuote(t[p]) /\ NextKeyAt(t, p + 1)

\* (?:.(?!...))+ at index q: the length of the longest run it can take
RunLen(t, q) ==
    Min({j \in q..Len(t) : ~IsDot(t[j]) \/ Stops(t, j + 1)} \cup {Len(t) + 1}) - q

\* ((?:.(?!...))+.) at index q, the run taking at most k characters: the
\* index of the value's last character, or 0.  The run gives its last
\* character back when nothing follows it
ValueEndOf(t, q, k) ==
    IF k >= 1 /\ q + k <= Len(t) /\ IsDot(t[q + k]) THEN q + k
    ELSE IF k >= 2 THEN q + k - 1
    ELSE 0

ValueEnd(t, q) == ValueEndOf(t, q, RunLen(t, q))

\* the value's first index for a key that ends before the = at index e, or
\* 0: ["']? takes a quote when the rest then matches, and else leaves it
ValueStart(t, e) ==
    IF e + 1 <= Len(t) /\ IsQuote(t[e + 1]) /\ ValueEnd(t, e + 2) # 0 THEN e + 2
    ELSE IF ValueEnd(t, e + 1) # 0 THEN e + 1
    ELSE 0

\* the index of the = that ends the key beginning at index i, or 0: (\S+) is
\* greedy and gives back to the last = after which the rest matches
KeyEnd(t, i) ==
    LastOf({e \in (i + 1)..NonSpaceEnd(t, i) : t[e] = "=" /\ ValueStart(t, e) # 0})

\* regexp.exec(tag) in a loop, from index `from` (the regexp's lastIndex).
\* Matched is the match with its key from i to before the = at e and its
\* value from q to v, and the matches after it
RECURSIVE ExecAll(_, _)

Matched(tag, i, e, q, v) ==
    <<[key |-> SubSeq(tag, i, e - 1), value |-> SubSeq(tag, q, v)]>>
    \o ExecAll(tag, IF v + 1 <= Len(tag) /\ IsQuote(tag[v + 1]) THEN v + 2 ELSE v + 1)

MatchedValue(tag, i, e, q) == Matched(tag, i, e, q, ValueEnd(tag, q))

MatchedKey(tag, i, e) == MatchedValue(tag, i, e, ValueStart(tag, e))

ExecAt(tag, i) == IF i = 0 THEN << >> ELSE MatchedKey(tag, i, KeyEnd(tag, i))

ExecAll(tag, from) ==
    ExecAt(tag, FirstOf({i \in from..Len(tag) : KeyEnd(tag, i) # 0}))

getAttributes(tag) == ExecAll(tag, 1)

----------------------------------------------------------------------------
(* The resolver.  A call returns a record: out, the text it returns; log,  *)
(* the gutil.log entries it made, in order; reads, the number of           *)
(* fs.readFileSync calls it made; over, whether it ended in the engine's   *)
(* "Maximum call stack size exceeded" RangeError instead of returning.     *)

\* the call stack's capacity, counted in nested injectHTML calls
MaxDepth == 4

pluginName == "gulp-html-partial"

\* the settings of the module before any transform(config) call
DefaultOptions ==
    [tagName |-> <<"partial">>, basePath |-> << >>, variablePrefix |-> <<"@", "@">>]

NoSrcEntry == [plugin |-> pluginName, kind |-> "no src attribute", path |-> << >>]
NoFileEntry(path) == [plugin |-> pluginName, kind |-> "does not exist", path |-> path]

Returned(out, log) == [out |-> out, log |-> log, reads |-> 0, over |-> FALSE]
Thrown == [out |-> << >>, log |-> << >>, reads |-> 0, over |-> TRUE]

\* html.prettyPrint of the html package: a reflow of white space.  Runs of
\* white space become one space and the ends are trimmed.  Reflow gives the
\* words from index `from` on, ReflowAt with the next word at index i
RECURSIVE Reflow(_, _)

ReflowAt(s, from, i) ==
    IF i = 0 THEN << >>
    ELSE (IF from = 1 THEN << >> ELSE <<SP>>) \o SubSeq(s, i, NonSpaceEnd(s, i))
         \o Reflow(s, NonSpaceEnd(s, i) + 1)

Reflow(s, from) == ReflowAt(s, from, FirstOf({i \in from..Len(s) : ~IsSpace(s[i])}))

prettyPrint(s) == Reflow(s, 1)

\* (attributes || []).forEach(...) from index k on.  escapeRegExp escapes
\* every character that is special in a regular expression, so the regular
\* expression finds the literal text variablePrefix + key
RECURSIVE ReplaceEach(_, _, _, _)
ReplaceEach(html, attributes, k, opts) ==
    IF k > Len(attributes) THEN html
    ELSE ReplaceEach(ReplaceAll(html,
                                opts.variablePrefix \o attributes[k].key,
                                attributes[k].value),
                     attributes, k + 1, opts)

\* file is the text read, or << >> when nothing was read
replaceAttributes(file, attributes, opts) == ReplaceEach(file, attributes, 1, opts)

\* the order in which getHTML replaces its tags: 1, 2, ..., n
Ascending(n) == [i \in 1..n |-> i]

\* tags.reduce((output, tag, index) => output.replace(tag, partials[index]), html),
\* the tags taken in the given order of indices
RECURSIVE ReduceTags(_, _, _, _)
ReduceTags(output, tags, partials, order) ==
    IF order = << >> THEN output
    ELSE ReduceTags(ReplaceFirst(output, tags[Head(order)], partials[Head(order)]),
                    tags, partials, Tail(order))

RECURSIVE injectHTML(_, _, _, _)
RECURSIVE MapPartials(_, _, _, _, _)

\* partition(attributes, (attribute) => attribute.key === 'src')
SrcOf(attributes) == SelectSeq(attributes, LAMBDA a : a.key = <<"src">>)
VarsOf(attributes) == SelectSeq(attributes, LAMBDA a : a.key # <<"src">>)

\* the end of getPartial with `file` what injectHTML did on the file read
PartialOf(file, attributes, opts) ==
    [out |-> IF file.over THEN << >>
             ELSE replaceAttributes(file.out, VarsOf(attributes), opts),
     log |-> file.log,
     reads |-> 1 + file.reads,
     over |-> file.over]

\* getPartial without the fs.existsSync test: readFileSync throws on a path
\* that does not exist
getPartialUnguarded(attributes, opts, disk, depth) ==
    IF SrcOf(attributes) = << >>
    THEN Returned(replaceAttributes(<< >>, VarsOf(attributes), opts), <<NoSrcEntry>>)
    ELSE IF opts.basePath \o SrcOf(attributes)[1].value \in DOMAIN disk
    THEN PartialOf(injectHTML(disk[opts.basePath \o SrcOf(attributes)[1].value],
                              opts, disk, depth + 1),
                   attributes, opts)
    ELSE Thrown

getPartial(attributes, opts, disk, depth) ==
    IF SrcOf(attributes) # << >>
       /\ opts.basePath \o SrcOf(attributes)[1].value \in DOMAIN disk
    THEN PartialOf(injectHTML(disk[opts.basePath \o SrcOf(attributes)[1].value],
                              opts, disk, depth + 1),
                   attributes, opts)
    ELSE IF SrcOf(attributes) = << >>
    THEN Returned(replaceAttributes(<< >>, VarsOf(attributes), opts), <<NoSrcEntry>>)
    ELSE Returned(replaceAttributes(<< >>, VarsOf(attributes), opts),
                  <<NoFileEntry(opts.basePath \o SrcOf(attributes)[1].value)>>)

\* tags.map((tag) => getPartial(getAttributes(tag))) from index k on: outs
\* are the texts returned.  The map ends at the first call that throws.
\* MapMore is the map with p what getPartial did on tag k, MapBoth with
\* rest what the map did on the tags after it
MapBoth(p, rest) ==
    [outs |-> <<p.out>> \o rest.outs,
     log |-> p.log \o rest.log,
     reads |-> p.reads + rest.reads,
     over |-> rest.over]

MapMore(p, tags, k, opts, disk, depth) ==
    IF p.over
    THEN [outs |-> << >>, log |-> p.log, reads |-> p.reads, over |-> TRUE]
    ELSE MapBoth(p, MapPartials(tags, k + 1, opts, disk, depth))

MapPartials(tags, k, opts, disk, depth) ==
    IF k > Len(tags)
    THEN [outs |-> << >>, log |-> << >>, reads |-> 0, over |-> FALSE]
    ELSE MapMore(getPartial(getAttributes(tags[k]), opts, disk, depth),
                 tags, k, opts, disk, depth)

\* getHTML with its tags and with partials what the map did on them
Reduced(html, tags, partials) ==
    [out |-> IF partials.over THEN << >>
             ELSE ReduceTags(html, tags, partials.outs, Ascending(Len(tags))),
     log |-> partials.log,
     reads |-> partials.reads,
     over |-> partials.over]

Mapped(html, tags, opts, disk, depth) ==
    Reduced(html, tags, MapPartials(tags, 1, opts, disk, depth))

getHTML(html, opts, disk, depth) ==
    Mapped(html, getTags(html, opts), opts, disk, depth)

\* the three content.replace calls of injectHTML
Normalize(content, opts) ==
    ReplaceAll(ReplaceAll(ReplaceLineBreaks(content),
                          <<"<">> \o opts.tagName, <<NL, "<">> \o opts.tagName),
               opts.tagName \o <<">">>, opts.tagName \o <<">", NL>>)

\* new Buffer(html.prettyPrint(r)) for r what getHTML did
Printed(r) == [r EXCEPT !.out = IF r.over THEN << >> ELSE prettyPrint(@)]

\* injectHTML with a limit on the depth of inclusion, below which a file's
\* tags are left unresolved
injectHTMLLimited(content, opts, disk, depth) ==
    IF depth >= MaxDepth
    THEN Printed(Returned(Normalize(content, opts), << >>))
    ELSE Printed(getHTML(Normalize(content, opts), opts, disk, depth))

injectHTML(content, opts, disk, depth) ==
    IF depth > MaxDepth THEN Thrown
    ELSE Printed(getHTML(Normalize(content, opts), opts, disk, depth))

----------------------------------------------------------------------------
(* transform and the through2 callback.                                    *)

\* Object.assign(options, config): config is a function from some of the
\* setting names to values
Assign(opts, config) ==
    [k \in DOMAIN opts |-> IF k \in DOMAIN config THEN config[k] ELSE opts[k]]

StreamsError == [plugin |-> pluginName, message |-> "Streams are not supported"]

\* the function (file, enc, callback) given to through2.obj, run on one
\* vinyl file under the settings opts: error, the errors given to
\* this.emit('error', ...); pushed, the files handed on; thrown, whether an
\* exception left the callback.  listening is whether the stream has an
\* 'error' listener: emit throws its argument when there is none, and the
\* return callback(null, file) after it is not reached.
\* Injected is the callback's end for a buffer, r what injectHTML did on
\* its contents
Injected(file, r) ==
    [error |-> << >>,
     pushed |-> IF r.over THEN << >> ELSE <<[file EXCEPT !.contents = r.out]>>,
     log |-> r.log, reads |-> r.reads, thrown |-> r.over]

Callback(file, opts, disk, listening) ==
    IF file.kind = "stream"
    THEN [error |-> <<StreamsError>>,
          pushed |-> IF listening THEN <<file>> ELSE << >>,
          log |-> << >>, reads |-> 0, thrown |-> ~listening]
    ELSE IF file.kind = "buffer"
    THEN Injected(file, injectHTML(file.contents, opts, disk, 0))
    ELSE [error |-> << >>, pushed |-> <<file>>,
          log |-> << >>, reads |-> 0, thrown |-> FALSE]

----------------------------------------------------------------------------
(* The texts the model runs on, written as pieces: a piece is a stretch of *)
(* text or a partial tag given by its form, its attributes and its body.   *)

Txt(s) == [t |-> "text", s |-> s]
Attr(key, value) == [key |-> key, value |-> value, q |-> <<DQ>>]
Tag(name, form, attrs, body) ==
    [t |-> "tag", name |-> name, form |-> form, attrs |-> attrs, body |-> body]

RECURSIVE RenderAttrs(_)
RenderAttrs(attrs) ==
    IF attrs = << >> THEN << >>
    ELSE <<SP>> \o Head(attrs).key \o <<"=">> \o Head(attrs).q \o Head(attrs).value
         \o Head(attrs).q \o RenderAttrs(Tail(attrs))

RenderPiece(p) ==
    IF p.t = "text" THEN p.s
    ELSE <<"<">> \o p.name \o RenderAttrs(p.attrs)
         \o (IF p.form = "self" THEN <<"/", ">">>
             ELSE <<">">> \o p.body \o <<"<", "/">> \o p.name \o <<">">>)

RECURSIVE Render(_)
Render(pieces) ==
    IF pieces = << >> THEN << >>
    ELSE RenderPiece(Head(pieces)) \o Render(Tail(pieces))

P == <<"partial">>
Src(path) == Attr(<<"src">>, path)

\* the files on disk, as pieces, by path
DiskParts ==
    [path \in {<<"f", "1">>, <<"f", "3">>, <<"g", "1">>, <<"g", "2">>,
               <<"c", "0">>, <<"c", "1">>, <<"c", "2">>, <<"d", "/", "f", "1">>} |->
        CASE path = <<"f", "1">> -> <<Txt(<<"v", "-", "@", "@", "t">>)>>
          [] path = <<"f", "3">> -> <<Txt(<<"w", "$", SQ>>)>>
          [] path = <<"g", "1">> ->
                <<Tag(P, "closed", <<Src(<<"g", "2">>), Attr(<<"t">>, <<"@", "@", "t">>)>>, << >>)>>
          [] path = <<"g", "2">> ->
                <<Txt(<<"[">>),
                  Tag(P, "self", <<Src(<<"f", "1">>), Attr(<<"t">>, <<"@", "@", "t">>)>>, << >>),
                  Txt(<<"]">>)>>
          [] path = <<"c", "0">> -> <<Tag(P, "self", <<Src(<<"c", "0">>)>>, << >>)>>
          [] path = <<"c", "1">> -> <<Tag(P, "self", <<Src(<<"c", "2">>)>>, << >>)>>
          [] path = <<"c", "2">> ->
                <<Txt(<<"x">>), Tag(P, "closed", <<Src(<<"c", "1">>)>>, << >>)>>
          [] path = <<"d", "/", "f", "1">> -> <<Txt(<<"u", NL, "u">>)>>]

Disk == [path \in DOMAIN DiskParts |-> Render(DiskParts[path])]

----------------------------------------------------------------------------
(* The plugin as a state machine.                                          *)

VARIABLES
    options,   \* the settings object of the module (lines 19-23)
    files,     \* the file system: the text of each path that exists
    streams,   \* the streams transform has returned, each with the config
               \* of its call and whether it has emitted an 'error' event
    crashed,   \* an exception has left a callback
    last,      \* the last run of a stream's callback: its file, the settings
               \* it ran under and what it did
    call       \* a single function of the module called on its own

vars == <<options, files, streams, crashed, last, call>>

\* bounds of the model
MaxStreams == 2
MaxAttrs == 2
MaxPieces == 2

I == <<"inc">>
F1 == <<"f", "1">>
XY == <<"X", "Y">>
T == <<"t">>

\* the config objects transform is called with
Configs ==
    { << >>,
      [tagName |-> I],
      [basePath |-> <<"d", "/">>, variablePrefix |-> <<"$">>] }

\* the vinyl files written to a stream
VinylDocs ==
    { <<Txt(<<"a">>), Tag(P, "self", <<Src(F1), Attr(T, XY)>>, << >>), Txt(<<"b">>)>>,
      <<Tag(I, "self", <<Src(F1)>>, << >>)>>,
      <<Tag(P, "self", <<Src(<<"c", "1">>)>>, << >>)>>,
      <<Tag(P, "closed", <<Src(<<"m", "m">>)>>, << >>)>> }

VinylFiles ==
    {[kind |-> "buffer", contents |-> Render(d)] : d \in VinylDocs}
    \cup {[kind |-> k, contents |-> Render(d)] :
             k \in {"stream", "null"},
             d \in {<<Tag(P, "self", <<Src(F1)>>, << >>)>>}}

NoCallback == [stream |-> 0]
NoCall == [fn |-> "none"]
NoResult == [out |-> << >>, log |-> << >>, reads |-> 0, over |-> FALSE]

Init ==
    /\ options = DefaultOptions
    /\ files = Disk
    /\ streams = << >>
    /\ crashed = FALSE
    /\ last = NoCallback
    /\ call = NoCall

\* transform(config)
transform(config) ==
    /\ ~crashed
    /\ Len(streams) < MaxStreams
    /\ options' = Assign(options, config)
    /\ streams' = Append(streams, [config |-> config, errored |-> FALSE])
    /\ UNCHANGED <<files, crashed, last, call>>

\* the state after the callback of stream s did r on file
Handled(s, file, listening, r) ==
    /\ last' = [stream |-> s, file |-> file, under |-> options,
                listening |-> listening,
                error |-> r.error, pushed |-> r.pushed, log |-> r.log,
                reads |-> r.reads, thrown |-> r.thrown]
    /\ streams' = [streams EXCEPT ![s].errored = @ \/ r.error # << >>]
    /\ crashed' = r.thrown
    /\ UNCHANGED <<options, files, call>>

\* a file written to stream s: through2 runs the callback on it
Write(s, file, listening) ==
    /\ ~crashed
    /\ Handled(s, file, listening, Callback(file, options, files, listening))

Next ==
    \/ \E config \in Configs : transform(config)
    \/ \E s \in 1..Len(streams), file \in VinylFiles, listening \in BOOLEAN :
          Write(s, file, listening)

Spec == Init /\ [][Next]_vars

----------------------------------------------------------------------------
(* Single functions of the module called on their own: the input is drawn  *)
(* when the call is made and the action is the function's return.          *)

\* every sequence over S of at most n elements
SeqsUpTo(S, n) == UNION {[1..k -> S] : k \in 0..n}

\* the texts replaceAttributes is called on
Contents ==
    { <<"@", "@", "a", "-", "@", "@", "b">>,
      <<"@", "@", "a", "@", "@", "a">>,
      <<"@", "@", "a", "b">>,
      <<"x">> }

\* the attributes replaceAttributes is called with
AttrPool ==
    { [key |-> <<"a">>, value |-> <<"1">>],
      [key |-> <<"b">>, value |-> <<"2">>],
      [key |-> <<"a">>, value |-> <<"@", "@", "b">>],
      [key |-> <<"a", "b">>, value |-> <<"z">>],
      [key |-> <<"a">>, value |-> <<"$", "&">>] }

\* the pieces of the documents getHTML and injectHTML are called on
PiecePool ==
    { Txt(<<"y">>),
      Tag(P, "self", <<Src(F1), Attr(T, XY)>>, << >>),
      Tag(P, "self", <<Src(F1), Attr(T, <<"X">>)>>, << >>),
      Tag(P, "closed", <<Src(F1)>>, << >>),
      Tag(P, "body", <<Src(F1)>>, <<SP, "t", "=", "Z", "Z", SP>>),
      Tag(P, "body", <<Src(F1)>>, <<"<", "b", "/", ">">>),
      Tag(P, "self", <<Src(<<"f", "3">>)>>, << >>),
      Tag(P, "self", <<Src(<<"m", "m">>)>>, << >>),
      Tag(P, "self", << >>, << >>),
      Tag(P, "closed", << >>, << >>),
      Tag(P, "self", <<Attr(T, XY)>>, << >>),
      Tag(P, "closed", <<Attr(T, XY)>>, << >>),
      Tag(P, "self", <<Src(<<"g", "1">>), Attr(T, XY)>>, << >>),
      Tag(P, "self", <<Src(<<"c", "1">>)>>, << >>),
      Tag(P, "closed", <<Src(<<"c", "0">>)>>, << >>) }

Docs == SeqsUpTo(PiecePool, MaxPieces)

Called(fn, pieces, attributes) ==
    [fn |-> fn, pieces |-> pieces, attributes |-> attributes,
     returned |-> FALSE, result |-> NoResult]

Calls ==
    {Called("replaceAttributes", <<Txt(c)>>, a) :
        c \in Contents, a \in SeqsUpTo(AttrPool, MaxAttrs)}
    \cup {Called(fn, d, << >>) : fn \in {"getHTML", "injectHTML"}, d \in Docs}

InitCalls ==
    /\ options = DefaultOptions
    /\ files = Disk
    /\ streams = << >>
    /\ crashed = FALSE
    /\ last = NoCallback
    /\ call \in Calls

Return(result) ==
    /\ ~call.returned
    /\ call' = [call EXCEPT !.returned = TRUE, !.result = result]
    /\ UNCHANGED <<options, files, streams, crashed, last>>

ReturnReplaceAttributes ==
    /\ call.fn = "replaceAttributes"
    /\ Return(Returned(replaceAttributes(Render(call.pieces), call.attributes, options),
                       << >>))

\* getHTML is called on a text injectHTML has normalized
ReturnGetHTML ==
    /\ call.fn = "getHTML"
    /\ Return(getHTML(Normalize(Render(call.pieces), options), options, files, 0))

ReturnInjectHTML ==
    /\ call.fn = "injectHTML"
    /\ Return(injectHTML(Render(call.pieces), options, files, 0))

NextCalls == ReturnReplaceAttributes \/ ReturnGetHTML \/ ReturnInjectHTML

SpecCalls == InitCalls /\ [][NextCalls]_vars

----------------------------------------------------------------------------
(* Claims about the streams transform returns.                             *)

Ran == last.stream # 0

\* C4: a file for which isStream() holds gets the 'Streams are not
\* supported' error, is handed on with its contents as they were and never
\* reaches injectHTML (nothing is read, nothing is logged), and it does not
\* end the batch: no exception leaves the callback, and a buffered file
\* written after it is resolved and handed on
StreamRejectedBatchGoesOn ==
    /\ Ran /\ last.file.kind = "stream" =>
          /\ last.error = <<StreamsError>>
          /\ last.pushed = <<last.file>>
          /\ last.log = << >> /\ last.reads = 0
          /\ ~last.thrown
    /\ Ran /\ last.file.kind = "buffer" /\ ~last.thrown =>
          /\ last.error = << >>
          /\ last.pushed =
                <<[kind |-> "buffer",
                   contents |-> injectHTML(last.file.contents, last.under, files, 0).out]>>
    /\ crashed => Ran /\ last.file.kind = "buffer"

\* C8: a file is resolved under the config of the transform call that made
\* its stream, the defaults standing in for the keys the config leaves out,
\* whatever other transform calls came before or after
ResolvedUnderOwnConfig ==
    Ran => last.under = Assign(DefaultOptions, streams[last.stream].config)

----------------------------------------------------------------------------
(* Claims about replaceAttributes and getHTML called on their own.         *)

Returns(fn) == call.fn = fn /\ call.returned

\* s with rep written in place of every occurrence of pat, left to right,
\* no character of rep standing for anything but itself
RECURSIVE SpliceAll(_, _, _)
SpliceAll(s, pat, rep) ==
    LET i == IndexOf(s, pat, 1)
    IN  IF i = 0 THEN s
        ELSE SubSeq(s, 1, i - 1) \o rep
             \o SpliceAll(SubSeq(s, i + Len(pat), Len(s)), pat, rep)

\* C5: the substitutions of the attributes of one tag are independent of
\* each other: with two attributes of different keys the text returned by
\* replaceAttributes is the same whichever of the two comes first
SubstitutionOrderFree ==
    Returns("replaceAttributes") /\ Len(call.attributes) = 2
    /\ call.attributes[1].key # call.attributes[2].key
    => call.result.out =
          replaceAttributes(Render(call.pieces),
                            <<call.attributes[2], call.attributes[1]>>, options)

\* the tag getHTML found in a document of one tag, and where
OnlyTag(html) == getTags(html, options)[1]
OnlyPlace(html) == TagPlaces(html, options)[1]

\* C6: what replaceAttributes writes in place of a placeholder is the
\* attribute's value character for character, and what getHTML writes in
\* place of a tag occurrence is the content resolved for that tag character
\* for character (calls with one attribute, documents of one tag)
SplicedVerbatim ==
    /\ Returns("replaceAttributes") /\ Len(call.attributes) = 1
       => call.result.out =
             SpliceAll(Render(call.pieces),
                       options.variablePrefix \o call.attributes[1].key,
                       call.attributes[1].value)
    /\ Returns("getHTML") /\ ~call.result.over
       /\ Len(getTags(Normalize(Render(call.pieces), options), options)) = 1
       => LET html == Normalize(Render(call.pieces), options)
          IN  call.result.out =
                SubSeq(html, 1, OnlyPlace(html)[1] - 1)
                \o getPartial(getAttributes(OnlyTag(html)), options, files, 0).out
                \o SubSeq(html, OnlyPlace(html)[2] + 1, Len(html))

----------------------------------------------------------------------------
(* What resolution is to produce, read off the pieces of the document and  *)
(* of the files: the reference the claims about getHTML and injectHTML     *)
(* compare the functions' results with.                                    *)

IsTag(p) == p.t = "tag"
HasSrc(p) == IsTag(p) /\ \E i \in 1..Len(p.attrs) : p.attrs[i].key = <<"src">>
SrcPath(p) == SrcOf(p.attrs)[1].value
Existing(p) == HasSrc(p) /\ SrcPath(p) \in DOMAIN DiskParts
Missing(p) == HasSrc(p) /\ SrcPath(p) \notin DOMAIN DiskParts
Tags(pieces) == SelectSeq(pieces, IsTag)

\* a text without its white space: pretty printing is free to change it
Squeeze(s) == SelectSeq(s, LAMBDA c : ~IsSpace(c))

\* every placeholder of every attribute replaced by the attribute's value
RECURSIVE SpliceVars(_, _)
SpliceVars(s, attrs) ==
    IF attrs = << >> THEN s
    ELSE SpliceVars(SpliceAll(s, DefaultOptions.variablePrefix \o Head(attrs).key, Head(attrs).value),
                    Tail(attrs))

\* the resolved text of a sequence of pieces: a tag is the resolved text of
\* its file with the tag's variables filled in, nothing when it names no
\* file that exists; n bounds the depth of inclusion
RECURSIVE Ideal(_, _)
IdealPiece(p, n) ==
    IF ~IsTag(p) THEN p.s
    ELSE IF ~Existing(p) \/ n = 0 THEN << >>
    ELSE SpliceVars(Ideal(DiskParts[SrcPath(p)], n - 1), VarsOf(p.attrs))

Ideal(pieces, n) ==
    IF pieces = << >> THEN << >>
    ELSE IdealPiece(Head(pieces), n) \o Ideal(Tail(pieces), n)

\* the files read to resolve a sequence of pieces, one read for each tag of
\* an existing file and those of the file's own tags
RECURSIVE Reads(_, _)
Reads(pieces, n) ==
    IF pieces = << >> \/ n = 0 THEN 0
    ELSE (IF Existing(Head(pieces))
          THEN 1 + Reads(DiskParts[SrcPath(Head(pieces))], n - 1)
          ELSE 0)
         + Reads(Tail(pieces), n)

\* the existing files the tags of a sequence of pieces name
Refs(pieces) ==
    {SrcPath(pieces[i]) : i \in {j \in 1..Len(pieces) : Existing(pieces[j])}}

\* the files reachable from a set of files through src attributes
RECURSIVE ReachFrom(_)
ReachFrom(S) ==
    LET more == S \cup UNION {Refs(DiskParts[f]) : f \in S}
    IN  IF more = S THEN S ELSE ReachFrom(more)

\* a file the document reaches includes itself, directly or through others
Cyclic(pieces) ==
    \E f \in ReachFrom(Refs(pieces)) : f \in ReachFrom(Refs(DiskParts[f]))

\* a tag in the self-closing or the empty closed form
Bodiless(p) == IsTag(p) /\ p.form \in {"self", "closed"}

\* a tag of an existing file that reaches no cycle and no character
\* sequence starting with $
Clean(p) ==
    /\ Existing(p)
    /\ ~Cyclic(<<p>>)
    /\ \A f \in ReachFrom(Refs(<<p>>)) : ~Contains(Disk[f], <<"$">>)

Plain(p) == Bodiless(p) /\ Clean(p)

AllPieces(pieces, Ok(_)) == \A i \in 1..Len(pieces) : Ok(pieces[i])
SomePiece(pieces, Ok(_)) == \E i \in 1..Len(pieces) : Ok(pieces[i])

\* the start of a partial tag
TagStart == <<"<">> \o DefaultOptions.tagName

----------------------------------------------------------------------------
(* Claims about injectHTML and getHTML called on a document.               *)

\* C1: a document whose tags name existing files, to any depth of
\* inclusion, resolves to the text in which each tag is replaced by its
\* file's content, the file's own tags resolved first and the placeholders
\* of the including tag's attributes then replaced by the attributes'
\* values; no partial tag is left in it
ResolvedRecursively ==
    Returns("injectHTML") /\ SomePiece(call.pieces, IsTag)
    /\ AllPieces(call.pieces, LAMBDA p : IsTag(p) => Plain(p))
    => /\ ~call.result.over
       /\ Squeeze(call.result.out) = Squeeze(Ideal(call.pieces, MaxDepth))
       /\ ~Contains(call.result.out, TagStart)

\* a tag without a src attribute
NoSrc(p) == IsTag(p) /\ Bodiless(p) /\ ~HasSrc(p)

\* C2: in a document of text and tags without a src attribute, every tag,
\* self-closing or closed, with other attributes or with none, is found,
\* leaves nothing in its place and is logged once as having no src
\* attribute; the text around the tags stays
NoSrcEmptyAndLogged ==
    Returns("injectHTML") /\ SomePiece(call.pieces, IsTag)
    /\ AllPieces(call.pieces, LAMBDA p : IsTag(p) => NoSrc(p))
    => /\ call.result.log = [i \in 1..Len(Tags(call.pieces)) |-> NoSrcEntry]
       /\ Squeeze(call.result.out) = Squeeze(Ideal(call.pieces, MaxDepth))
       /\ call.result.reads = 0

\* a tag for getPartial to resolve beside a tag of a missing file: plain,
\* its values of two characters or more
Sound(p) ==
    Plain(p) /\ \A i \in 1..Len(p.attrs) : Len(p.attrs[i].value) >= 2

\* C3: in a document of text, tags of missing files and sound tags of
\* existing files, each tag of a missing file is logged once by its path
\* basePath + src, is not read and leaves nothing in its place, every other
\* tag is replaced by its file's content, and nothing is thrown
MissingFileNotFatal ==
    Returns("injectHTML") /\ SomePiece(call.pieces, Missing)
    /\ AllPieces(call.pieces,
                 LAMBDA p : IsTag(p) => Bodiless(p) /\ (Missing(p) \/ Sound(p)))
    => /\ ~call.result.over
       /\ call.result.log =
             [i \in 1..Len(SelectSeq(call.pieces, Missing)) |->
                 NoFileEntry(options.basePath
                             \o SrcPath(SelectSeq(call.pieces, Missing)[i]))]
       /\ call.result.reads = Reads(call.pieces, MaxDepth)
       /\ Squeeze(call.result.out) = Squeeze(Ideal(call.pieces, MaxDepth))

\* a tag of a missing file beside a tag of an existing file, the one logged
\* and the other resolved
MissingBesideResolved ==
    /\ Returns("injectHTML")
    /\ SomePiece(call.pieces, Missing) /\ SomePiece(call.pieces, Sound)
    /\ call.result.log = <<NoFileEntry(<<"m", "m">>)>>
    /\ call.result.reads = 1
    /\ call.result.out = <<"v", "-", "X", "Y">>

\* the pieces with every tag in the self-closing form
SelfClosed(pieces) ==
    [i \in 1..Len(pieces) |->
        IF IsTag(pieces[i]) THEN [pieces[i] EXCEPT !.form = "self", !.body = << >>]
        ELSE pieces[i]]

\* C7: a document whose tags name existing files and of which some are in
\* the closed form, with a body or without, resolves as the document with
\* those tags in the self-closing form does: the same text, the same number
\* of file reads, the same log entries
ClosedAsSelfClosing ==
    Returns("injectHTML")
    /\ SomePiece(call.pieces, LAMBDA p : IsTag(p) /\ p.form # "self")
    /\ AllPieces(call.pieces, LAMBDA p : IsTag(p) => Clean(p))
    => LET self == injectHTML(Render(SelfClosed(call.pieces)), options, files, 0)
       IN  /\ call.result.over = self.over
           /\ Squeeze(call.result.out) = Squeeze(self.out)
           /\ call.result.reads = self.reads
           /\ call.result.log = self.log

\* the orders n tags can be taken in
Perms(n) == {f \in [1..n -> 1..n] : \A i, j \in 1..n : f[i] = f[j] => i = j}

Disjoint(places) ==
    \A i, j \in 1..Len(places) :
        i # j => places[i][2] < places[j][1] \/ places[j][2] < places[i][1]

\* C9: when the tags getHTML finds lie apart from each other, the document
\* it returns is the one replacing the tags in any other order gives
AnyOrderSameDocument ==
    Returns("getHTML") /\ ~call.result.over
    => LET html == Normalize(Render(call.pieces), options)
           tags == getTags(html, options)
           partials == MapPartials(tags, 1, options, files, 0).outs
       IN  Disjoint(TagPlaces(html, options)) =>
              \A order \in Perms(Len(tags)) :
                 ReduceTags(html, tags, partials, order) = call.result.out

\* C10: injectHTML returns a resolved document exactly when no file the
\* document reaches includes itself, directly or through other files; when
\* one does, the recursion goes on until the stack is exhausted and nothing
\* is returned
ReturnsUnlessCyclic ==
    Returns("injectHTML") =>
        /\ call.result.over <=> Cyclic(call.pieces)
        /\ ~call.result.over => call.result.reads >= Reads(call.pieces, MaxDepth)
        /\ call.result.over => call.result.out = << >>

\* a document that reaches a file including itself through another file,
\* and a document behind it that did not come back
CycleNeverReturns ==
    /\ Returns("injectHTML")
    /\ Cyclic(call.pieces) /\ <<"c", "1">> \in Refs(call.pieces)
    /\ call.result.over

============================================================================
